---- MODULE Spec2Model ----
(***************************************************************************)
(* The asynchronous synthesis client of PollyCheatSheet.md ("Asynchronous  *)
(* Synthesis with S3"): start_speech_synthesis_task, then a loop of        *)
(* get_speech_synthesis_task / time.sleep(2) until the task is 'completed' *)
(* or 'failed'.  Several independent pollers run interleaved, next to the  *)
(* text-to-speech service that owns the tasks.                             *)
(***************************************************************************)
EXTENDS Integers, Sequences, FiniteSets, TLC

(* ------------------------------- bounds -------------------------------- *)
MaxTasks == 2
MaxPolls == 2
MaxVoices == 2

(* -------------------------- program constants -------------------------- *)
SyncLimit == 3000
BatchLimit == 100000
PollInterval == 2

\* Two independent runs of the client script, interleaved.
Pollers == {"p1", "p2"}

\* A TaskId is an opaque non-empty string; "" stands for "no task id yet".
IdOf(i) == "task-" \o ToString(i)
TaskIds == {IdOf(i) : i \in 1..MaxTasks}
NoTask == ""

Bucket == "your-bucket-name"
KeyPrefix == "speech/"
OutputFormat == "mp3"

\* The lengths of the texts submitted: at the real-time ceiling, at the batch
\* ceiling (over the real-time one) and just over the batch ceiling.
TextLens == {SyncLimit, BatchLimit, BatchLimit + 1}

Statuses == {"scheduled", "inProgress", "completed", "failed"}
Terminal == {"completed", "failed"}
NoStatus == "none"

\* The position of a status in the lifecycle scheduled -> inProgress -> terminal.
Rank(s) == CASE s = "scheduled" -> 1
             [] s = "inProgress" -> 2
             [] s \in Terminal -> 3
             [] OTHER -> 0

VARIABLES
  pc,          \* pc[p]: "start", "query", "branch", "sleep", "done", "raised"
  text,        \* text[p]: length of the Text submitted by p, 0 before submit
  task_id,     \* task_id[p]: the TaskId held by p, NoTask if none
  task,        \* task[p]: the SynthesisTask record of the last response
  status,      \* status[p]: the TaskStatus read from the last query
  output_uri,  \* output_uri[p]: the OutputUri reported on completion
  printed,     \* printed[p]: the kind of the last line printed
  call,        \* call[p]: how p's last call to the service ended: "returned", "raised"
  error,       \* error[p]: the exception that ended p, "none" if none
  polls,       \* polls[p]: queries issued so far, counted up to MaxPolls
  slept,       \* slept[p]: seconds of the last suspend, 0 before any
  svcStatus,   \* svcStatus[id]: the service's status of task id, NoStatus if no such task
  s3,          \* the objects written to the output bucket
  nb,          \* the request at hand on the direct call paths and what each returned
  cell,        \* the notebook cell being run and how far it has got
  calls,       \* the synthesize_speech calls of that cell: voice_id, engine, result
  files,       \* the files of output_dir: pairs of a path and its bytes
  console,     \* the lines printed by the notebook's cells and helpers, by kind
  response,    \* response['Voices'] of the notebook's describe_voices call
  standard_voices,    \* the notebook's four lists of voice_info records
  neural_voices,
  long_form_voices,
  generative_voices,
  gav          \* the last call of get_appropriate_voice: arguments, catalog, outcome

vars == <<pc, text, task_id, task, status, output_uri, printed, call, error,
          polls, slept, svcStatus, s3, nb, cell, calls, files, console, response,
          standard_voices, neural_voices, long_form_voices, generative_voices,
          gav>>

\* The state of the notebook's cells and of the voice selection.
cellVars == <<cell, calls, files, console>>
listVars == <<response, standard_voices, neural_voices, long_form_voices,
              generative_voices>>
nbVars == <<nb, cellVars, listVars, gav>>

clientVars == <<pc, text, task_id, task, status, output_uri, printed, call,
                error, polls, slept>>

NoResponse == [TaskId |-> NoTask, TaskStatus |-> NoStatus, OutputUri |-> ""]

(* ------------------------------ the service ---------------------------- *)

\* The location the service will write the audio of task id to.
OutputUriOf(id) ==
  "https://s3.us-east-1.amazonaws.com/" \o Bucket \o "/" \o KeyPrefix \o id
    \o "." \o OutputFormat

\* The tasks the service knows.
Issued == {id \in TaskIds : svcStatus[id] # NoStatus}

\* A service that may hand out an id it has handed out before.
FreshIds_Reuse == TaskIds

\* The ids the service may give a new task: never one it has given before.
FreshIds == TaskIds \ Issued

\* The SynthesisTask record the service returns for a task it knows.
TaskRecord(id) ==
  [TaskId |-> id, TaskStatus |-> svcStatus[id], OutputUri |-> OutputUriOf(id)]

\* A batch ceiling that is off by one: a text of exactly the ceiling's length
\* is refused.
Accepts_Below(len, voiceOk, authOk) ==
  /\ len < BatchLimit
  /\ voiceOk
  /\ authOk

\* The service accepts a batch request of len characters.
Accepts(len, voiceOk, authOk) ==
  /\ len <= BatchLimit
  /\ voiceOk
  /\ authOk

\* get_speech_synthesis_task answers only for a task the service knows.
Known(id) == id \in Issued

(* --------------------------- the direct calls -------------------------- *)

\* The lengths of the texts tried on both paths.
NbTextLens == {1, SyncLimit, SyncLimit + 1, BatchLimit, BatchLimit + 1}

OutputFormats == {"mp3", "ogg_vorbis", "pcm"}

\* What a Python name may hold after synthesize_speech: None or bytes.
None == [kind |-> "None", bytes |-> <<>>]
Bytes(b) == [kind |-> "bytes", bytes |-> b]

\* The audio the service streams back: never empty.
AudioStreamOf(len, fmt) ==
  <<(CASE fmt = "mp3" -> 73 [] fmt = "ogg_vorbis" -> 79 [] OTHER -> 0),
    len % 256>>

\* The real-time call serves a text of len characters.
SyncAccepts(len, voiceOk, callOk) ==
  /\ len <= SyncLimit
  /\ voiceOk
  /\ callOk

\* The exceptions the real-time call may raise for a request.
SyncFaults(len, voiceOk, callOk) ==
  (IF len > SyncLimit THEN {"TextSizeLimitExceeded"} ELSE {})
    \cup (IF voiceOk THEN {} ELSE {"ValidationException"})
    \cup (IF callOk THEN {} ELSE {"ClientError"})

\* No request chosen, nothing called.
NbIdle ==
  [text |-> 0, voice_ok |-> TRUE, env |-> "ok", format |-> "mp3",
   synth |-> "unset", audio_data |-> None, exc |-> "none", batch |-> "unset"]

\* No cell is running.
CellIdle == [name |-> "none", pc |-> "idle", in_except |-> FALSE]

\* get_appropriate_voice has not been called.
GavIdle ==
  [called |-> FALSE, language_code |-> "", gender_preference |-> None,
   voices |-> <<>>, outcome |-> "none", id |-> "", exc |-> "none"]

Init ==
  /\ pc = [p \in Pollers |-> "start"]
  /\ text = [p \in Pollers |-> 0]
  /\ task_id = [p \in Pollers |-> NoTask]
  /\ task = [p \in Pollers |-> NoResponse]
  /\ status = [p \in Pollers |-> NoStatus]
  /\ output_uri = [p \in Pollers |-> ""]
  /\ printed = [p \in Pollers |-> "none"]
  /\ call = [p \in Pollers |-> "none"]
  /\ error = [p \in Pollers |-> "none"]
  /\ polls = [p \in Pollers |-> 0]
  /\ slept = [p \in Pollers |-> 0]
  /\ svcStatus = [id \in TaskIds |-> NoStatus]
  /\ s3 = {}
  /\ nb = NbIdle
  /\ cell = CellIdle
  /\ calls = <<>>
  /\ files = {}
  /\ console = <<>>
  /\ response = <<>>
  /\ standard_voices = <<>>
  /\ neural_voices = <<>>
  /\ long_form_voices = <<>>
  /\ generative_voices = <<>>
  /\ gav = GavIdle

\* The service moves a scheduled task to inProgress.
SvcStart(id) ==
  /\ svcStatus[id] = "scheduled"
  /\ svcStatus' = [svcStatus EXCEPT ![id] = "inProgress"]
  /\ UNCHANGED <<clientVars, s3>>
  /\ UNCHANGED nbVars

\* A service that reports the task completed before the audio is written.
SvcComplete_BeforeWrite(id) ==
  /\ svcStatus[id] = "inProgress"
  /\ svcStatus' = [svcStatus EXCEPT ![id] = "completed"]
  /\ UNCHANGED <<clientVars, s3>>
  /\ UNCHANGED nbVars

\* The service writes the audio to the bucket and marks the task completed.
SvcComplete(id) ==
  /\ svcStatus[id] = "inProgress"
  /\ svcStatus' = [svcStatus EXCEPT ![id] = "completed"]
  /\ s3' = s3 \cup {OutputUriOf(id)}
  /\ UNCHANGED clientVars
  /\ UNCHANGED nbVars

\* A service that may still fail a task it has reported completed.
SvcFail_AfterEnd(id) ==
  /\ svcStatus[id] \in {"scheduled", "inProgress", "completed"}
  /\ svcStatus' = [svcStatus EXCEPT ![id] = "failed"]
  /\ UNCHANGED <<clientVars, s3>>
  /\ UNCHANGED nbVars

\* The service gives up on a task that has not ended.
SvcFail(id) ==
  /\ svcStatus[id] \in {"scheduled", "inProgress"}
  /\ svcStatus' = [svcStatus EXCEPT ![id] = "failed"]
  /\ UNCHANGED <<clientVars, s3>>
  /\ UNCHANGED nbVars

(* ------------------------------ the client ----------------------------- *)

\* Submit with the rejection swallowed (try/except: pass): the script goes on
\* to the poll loop without a task id.
Submit_Swallow(p) ==
  /\ pc[p] = "start"
  /\ \E len \in TextLens, voiceOk \in BOOLEAN, authOk \in BOOLEAN :
       /\ text' = [text EXCEPT ![p] = len]
       /\ IF Accepts(len, voiceOk, authOk)
            THEN \E id \in FreshIds :
                   /\ svcStatus' = [svcStatus EXCEPT ![id] = "scheduled"]
                   /\ task' = [task EXCEPT ![p] =
                        [TaskId |-> id, TaskStatus |-> "scheduled",
                         OutputUri |-> OutputUriOf(id)]]
                   /\ task_id' = [task_id EXCEPT ![p] = id]
                   /\ printed' = [printed EXCEPT ![p] = "TaskId"]
                   /\ call' = [call EXCEPT ![p] = "returned"]
            ELSE /\ call' = [call EXCEPT ![p] = "raised"]
                 /\ UNCHANGED <<svcStatus, task, task_id, printed>>
       /\ pc' = [pc EXCEPT ![p] = "query"]
  /\ UNCHANGED <<status, output_uri, error, polls, slept, s3>>
  /\ UNCHANGED nbVars

\* Submit that reads the wrong key of the response and keeps no task id.
Submit_NoId(p) ==
  /\ pc[p] = "start"
  /\ \E len \in TextLens, voiceOk \in BOOLEAN, authOk \in BOOLEAN :
       /\ text' = [text EXCEPT ![p] = len]
       /\ IF Accepts(len, voiceOk, authOk)
            THEN \E id \in FreshIds :
                   /\ svcStatus' = [svcStatus EXCEPT ![id] = "scheduled"]
                   /\ task' = [task EXCEPT ![p] =
                        [TaskId |-> id, TaskStatus |-> "scheduled",
                         OutputUri |-> OutputUriOf(id)]]
                   /\ printed' = [printed EXCEPT ![p] = "TaskId"]
                   /\ call' = [call EXCEPT ![p] = "returned"]
                   /\ pc' = [pc EXCEPT ![p] = "query"]
                   /\ UNCHANGED <<error, task_id>>
            ELSE /\ call' = [call EXCEPT ![p] = "raised"]
                 /\ error' = [error EXCEPT ![p] = "SubmissionError"]
                 /\ pc' = [pc EXCEPT ![p] = "raised"]
                 /\ UNCHANGED <<svcStatus, task, task_id, printed>>
  /\ UNCHANGED <<status, output_uri, polls, slept, s3>>
  /\ UNCHANGED nbVars

\* Submit with a local length check in front of the call: an oversized text
\* raises without reaching the service.
Submit_LocalCheck(p) ==
  /\ pc[p] = "start"
  /\ \E len \in TextLens, voiceOk \in BOOLEAN, authOk \in BOOLEAN :
       /\ text' = [text EXCEPT ![p] = len]
       /\ IF len > BatchLimit
            THEN /\ error' = [error EXCEPT ![p] = "SubmissionError"]
                 /\ pc' = [pc EXCEPT ![p] = "raised"]
                 /\ UNCHANGED <<svcStatus, task, task_id, printed, call>>
            ELSE IF Accepts(len, voiceOk, authOk)
              THEN \E id \in FreshIds :
                     /\ svcStatus' = [svcStatus EXCEPT ![id] = "scheduled"]
                     /\ task' = [task EXCEPT ![p] =
                          [TaskId |-> id, TaskStatus |-> "scheduled",
                           OutputUri |-> OutputUriOf(id)]]
                     /\ task_id' = [task_id EXCEPT ![p] = id]
                     /\ printed' = [printed EXCEPT ![p] = "TaskId"]
                     /\ call' = [call EXCEPT ![p] = "returned"]
                     /\ pc' = [pc EXCEPT ![p] = "query"]
                     /\ UNCHANGED error
              ELSE /\ call' = [call EXCEPT ![p] = "raised"]
                   /\ error' = [error EXCEPT ![p] = "SubmissionError"]
                   /\ pc' = [pc EXCEPT ![p] = "raised"]
                   /\ UNCHANGED <<svcStatus, task, task_id, printed>>
  /\ UNCHANGED <<status, output_uri, polls, slept, s3>>
  /\ UNCHANGED nbVars

\* Submit against a backend that runs the task inside the call: the task is
\* created completed, its audio written.
Submit_Synchronous(p) ==
  /\ pc[p] = "start"
  /\ \E len \in TextLens, voiceOk \in BOOLEAN, authOk \in BOOLEAN :
       /\ text' = [text EXCEPT ![p] = len]
       /\ IF Accepts(len, voiceOk, authOk)
            THEN \E id \in FreshIds :
                   /\ svcStatus' = [svcStatus EXCEPT ![id] = "completed"]
                   /\ s3' = s3 \cup {OutputUriOf(id)}
                   /\ task' = [task EXCEPT ![p] =
                        [TaskId |-> id, TaskStatus |-> "completed",
                         OutputUri |-> OutputUriOf(id)]]
                   /\ task_id' = [task_id EXCEPT ![p] = id]
                   /\ printed' = [printed EXCEPT ![p] = "TaskId"]
                   /\ call' = [call EXCEPT ![p] = "returned"]
                   /\ pc' = [pc EXCEPT ![p] = "query"]
                   /\ UNCHANGED error
            ELSE /\ call' = [call EXCEPT ![p] = "raised"]
                 /\ error' = [error EXCEPT ![p] = "SubmissionError"]
                 /\ pc' = [pc EXCEPT ![p] = "raised"]
                 /\ UNCHANGED <<svcStatus, task, task_id, printed, s3>>
  /\ UNCHANGED <<status, output_uri, polls, slept>>
  /\ UNCHANGED nbVars

\* polly.start_speech_synthesis_task(...); task_id = response[...]; print.
Submit(p) ==
  /\ pc[p] = "start"
  /\ \E len \in TextLens, voiceOk \in BOOLEAN, authOk \in BOOLEAN :
       /\ text' = [text EXCEPT ![p] = len]
       /\ IF Accepts(len, voiceOk, authOk)
            THEN \E id \in FreshIds :
                   /\ svcStatus' = [svcStatus EXCEPT ![id] = "scheduled"]
                   /\ task' = [task EXCEPT ![p] =
                        [TaskId |-> id, TaskStatus |-> "scheduled",
                         OutputUri |-> OutputUriOf(id)]]
                   /\ task_id' = [task_id EXCEPT ![p] = id]
                   /\ printed' = [printed EXCEPT ![p] = "TaskId"]
                   /\ call' = [call EXCEPT ![p] = "returned"]
                   /\ pc' = [pc EXCEPT ![p] = "query"]
                   /\ UNCHANGED error
            ELSE /\ call' = [call EXCEPT ![p] = "raised"]
                 /\ error' = [error EXCEPT ![p] = "SubmissionError"]
                 /\ pc' = [pc EXCEPT ![p] = "raised"]
                 /\ UNCHANGED <<svcStatus, task, task_id, printed>>
  /\ UNCHANGED <<status, output_uri, polls, slept, s3>>
  /\ UNCHANGED nbVars

\* A caller that holds a TaskId from elsewhere waits on it without submitting.
AwaitGiven(p) ==
  /\ pc[p] = "start"
  /\ \E id \in TaskIds :
       task_id' = [task_id EXCEPT ![p] = id]
  /\ pc' = [pc EXCEPT ![p] = "query"]
  /\ UNCHANGED <<text, task, status, output_uri, printed, call, error, polls,
                 slept, svcStatus, s3>>
  /\ UNCHANGED nbVars

\* Query with the failure caught and retried after the usual sleep.
Query_RetryOnError(p) ==
  /\ pc[p] = "query"
  /\ polls' = [polls EXCEPT ![p] = IF @ < MaxPolls THEN @ + 1 ELSE @]
  /\ \E callOk \in BOOLEAN :
       IF callOk /\ Known(task_id[p])
         THEN /\ task' = [task EXCEPT ![p] = TaskRecord(task_id[p])]
              /\ status' = [status EXCEPT ![p] = svcStatus[task_id[p]]]
              /\ call' = [call EXCEPT ![p] = "returned"]
              /\ pc' = [pc EXCEPT ![p] = "branch"]
         ELSE /\ call' = [call EXCEPT ![p] = "raised"]
              /\ pc' = [pc EXCEPT ![p] = "sleep"]
              /\ UNCHANGED <<task, status>>
  /\ UNCHANGED <<text, task_id, output_uri, printed, error, slept, svcStatus, s3>>
  /\ UNCHANGED nbVars

\* Query with the failure caught and a default status put in its place.
Query_DefaultOnError(p) ==
  /\ pc[p] = "query"
  /\ polls' = [polls EXCEPT ![p] = IF @ < MaxPolls THEN @ + 1 ELSE @]
  /\ \E callOk \in BOOLEAN :
       IF callOk /\ Known(task_id[p])
         THEN /\ task' = [task EXCEPT ![p] = TaskRecord(task_id[p])]
              /\ status' = [status EXCEPT ![p] = svcStatus[task_id[p]]]
              /\ call' = [call EXCEPT ![p] = "returned"]
         ELSE /\ status' = [status EXCEPT ![p] = "scheduled"]
              /\ call' = [call EXCEPT ![p] = "raised"]
              /\ UNCHANGED task
  /\ pc' = [pc EXCEPT ![p] = "branch"]
  /\ UNCHANGED <<text, task_id, output_uri, printed, error, slept, svcStatus, s3>>
  /\ UNCHANGED nbVars

\* Query that keeps the status in one variable shared by every poller.
Query_SharedStatus(p) ==
  /\ pc[p] = "query"
  /\ polls' = [polls EXCEPT ![p] = IF @ < MaxPolls THEN @ + 1 ELSE @]
  /\ \E callOk \in BOOLEAN :
       IF callOk /\ Known(task_id[p])
         THEN /\ task' = [task EXCEPT ![p] = TaskRecord(task_id[p])]
              /\ status' = [q \in Pollers |-> svcStatus[task_id[p]]]
              /\ call' = [call EXCEPT ![p] = "returned"]
              /\ pc' = [pc EXCEPT ![p] = "branch"]
              /\ UNCHANGED error
         ELSE /\ call' = [call EXCEPT ![p] = "raised"]
              /\ error' = [error EXCEPT ![p] = "PollError"]
              /\ pc' = [pc EXCEPT ![p] = "raised"]
              /\ UNCHANGED <<task, status>>
  /\ UNCHANGED <<text, task_id, output_uri, printed, slept, svcStatus, s3>>
  /\ UNCHANGED nbVars

\* task = polly.get_speech_synthesis_task(TaskId=task_id); status = task[...]
Query(p) ==
  /\ pc[p] = "query"
  /\ polls' = [polls EXCEPT ![p] = IF @ < MaxPolls THEN @ + 1 ELSE @]
  /\ \E callOk \in BOOLEAN :
       IF callOk /\ Known(task_id[p])
         THEN /\ task' = [task EXCEPT ![p] = TaskRecord(task_id[p])]
              /\ status' = [status EXCEPT ![p] = svcStatus[task_id[p]]]
              /\ call' = [call EXCEPT ![p] = "returned"]
              /\ pc' = [pc EXCEPT ![p] = "branch"]
              /\ UNCHANGED error
         ELSE /\ call' = [call EXCEPT ![p] = "raised"]
              /\ error' = [error EXCEPT ![p] = "PollError"]
              /\ pc' = [pc EXCEPT ![p] = "raised"]
              /\ UNCHANGED <<task, status>>
  /\ UNCHANGED <<text, task_id, output_uri, printed, slept, svcStatus, s3>>
  /\ UNCHANGED nbVars

\* Branch with a break in the else branch too: the loop ends after any query.
Branch_BreakAlways(p) ==
  /\ pc[p] = "branch"
  /\ IF status[p] = "completed"
       THEN /\ output_uri' = [output_uri EXCEPT ![p] = task[p].OutputUri]
            /\ printed' = [printed EXCEPT ![p] = "Completed"]
       ELSE IF status[p] = "failed"
         THEN /\ printed' = [printed EXCEPT ![p] = "Failed"]
              /\ UNCHANGED output_uri
         ELSE /\ printed' = [printed EXCEPT ![p] = "Status"]
              /\ UNCHANGED output_uri
  /\ pc' = [pc EXCEPT ![p] = "done"]
  /\ UNCHANGED <<text, task_id, task, status, call, error, polls, slept,
                 svcStatus, s3>>
  /\ UNCHANGED nbVars

\* Branch without the elif: 'failed' is printed and polled like any other status.
Branch_FailedNotTerminal(p) ==
  /\ pc[p] = "branch"
  /\ IF status[p] = "completed"
       THEN /\ output_uri' = [output_uri EXCEPT ![p] = task[p].OutputUri]
            /\ printed' = [printed EXCEPT ![p] = "Completed"]
            /\ pc' = [pc EXCEPT ![p] = "done"]
       ELSE /\ printed' = [printed EXCEPT ![p] = "Status"]
            /\ pc' = [pc EXCEPT ![p] = "sleep"]
            /\ UNCHANGED output_uri
  /\ UNCHANGED <<text, task_id, task, status, call, error, polls, slept,
                 svcStatus, s3>>
  /\ UNCHANGED nbVars

\* Branch that raises on 'failed' instead of printing and leaving the loop.
Branch_RaiseOnFailed(p) ==
  /\ pc[p] = "branch"
  /\ IF status[p] = "completed"
       THEN /\ output_uri' = [output_uri EXCEPT ![p] = task[p].OutputUri]
            /\ printed' = [printed EXCEPT ![p] = "Completed"]
            /\ pc' = [pc EXCEPT ![p] = "done"]
            /\ UNCHANGED error
       ELSE IF status[p] = "failed"
         THEN /\ error' = [error EXCEPT ![p] = "PollError"]
              /\ pc' = [pc EXCEPT ![p] = "raised"]
              /\ UNCHANGED <<output_uri, printed>>
         ELSE /\ printed' = [printed EXCEPT ![p] = "Status"]
              /\ pc' = [pc EXCEPT ![p] = "sleep"]
              /\ UNCHANGED <<output_uri, error>>
  /\ UNCHANGED <<text, task_id, task, status, call, polls, slept, svcStatus, s3>>
  /\ UNCHANGED nbVars

\* Branch that reads OutputUri in every branch, not only on 'completed'.
Branch_UriAlways(p) ==
  /\ pc[p] = "branch"
  /\ output_uri' = [output_uri EXCEPT ![p] = task[p].OutputUri]
  /\ IF status[p] = "completed"
       THEN /\ printed' = [printed EXCEPT ![p] = "Completed"]
            /\ pc' = [pc EXCEPT ![p] = "done"]
       ELSE IF status[p] = "failed"
         THEN /\ printed' = [printed EXCEPT ![p] = "Failed"]
              /\ pc' = [pc EXCEPT ![p] = "done"]
         ELSE /\ printed' = [printed EXCEPT ![p] = "Status"]
              /\ pc' = [pc EXCEPT ![p] = "sleep"]
  /\ UNCHANGED <<text, task_id, task, status, call, error, polls, slept,
                 svcStatus, s3>>
  /\ UNCHANGED nbVars

\* Branch that deletes the task from the service once the loop has ended.
Branch_Cleanup(p) ==
  /\ pc[p] = "branch"
  /\ IF status[p] = "completed"
       THEN /\ output_uri' = [output_uri EXCEPT ![p] = task[p].OutputUri]
            /\ printed' = [printed EXCEPT ![p] = "Completed"]
            /\ pc' = [pc EXCEPT ![p] = "done"]
            /\ svcStatus' = [svcStatus EXCEPT ![task_id[p]] = NoStatus]
       ELSE IF status[p] = "failed"
         THEN /\ printed' = [printed EXCEPT ![p] = "Failed"]
              /\ pc' = [pc EXCEPT ![p] = "done"]
              /\ svcStatus' = [svcStatus EXCEPT ![task_id[p]] = NoStatus]
              /\ UNCHANGED output_uri
         ELSE /\ printed' = [printed EXCEPT ![p] = "Status"]
              /\ pc' = [pc EXCEPT ![p] = "sleep"]
              /\ UNCHANGED <<output_uri, svcStatus>>
  /\ UNCHANGED <<text, task_id, task, status, call, error, polls, slept, s3>>
  /\ UNCHANGED nbVars

\* Branch that takes the output location from the submit response the script
\* kept, so a loop started on a TaskId alone has none.
Branch_UriFromSubmit(p) ==
  /\ pc[p] = "branch"
  /\ IF status[p] = "completed"
       THEN /\ output_uri' = [output_uri EXCEPT ![p] =
                 IF text[p] # 0 THEN task[p].OutputUri ELSE ""]
            /\ printed' = [printed EXCEPT ![p] = "Completed"]
            /\ pc' = [pc EXCEPT ![p] = "done"]
       ELSE IF status[p] = "failed"
         THEN /\ printed' = [printed EXCEPT ![p] = "Failed"]
              /\ pc' = [pc EXCEPT ![p] = "done"]
              /\ UNCHANGED output_uri
         ELSE /\ printed' = [printed EXCEPT ![p] = "Status"]
              /\ pc' = [pc EXCEPT ![p] = "sleep"]
              /\ UNCHANGED output_uri
  /\ UNCHANGED <<text, task_id, task, status, call, error, polls, slept,
                 svcStatus, s3>>
  /\ UNCHANGED nbVars

\* Branch that compares the status without regard to case.
Branch_CaseInsensitive(p) ==
  /\ pc[p] = "branch"
  /\ IF status[p] \in {"completed", "Completed"}
       THEN /\ output_uri' = [output_uri EXCEPT ![p] = task[p].OutputUri]
            /\ printed' = [printed EXCEPT ![p] = "Completed"]
            /\ pc' = [pc EXCEPT ![p] = "done"]
       ELSE IF status[p] = "failed"
         THEN /\ printed' = [printed EXCEPT ![p] = "Failed"]
              /\ pc' = [pc EXCEPT ![p] = "done"]
              /\ UNCHANGED output_uri
         ELSE /\ printed' = [printed EXCEPT ![p] = "Status"]
              /\ pc' = [pc EXCEPT ![p] = "sleep"]
              /\ UNCHANGED output_uri
  /\ UNCHANGED <<text, task_id, task, status, call, error, polls, slept,
                 svcStatus, s3>>
  /\ UNCHANGED nbVars

\* if status == 'completed': ... break / elif 'failed': ... break / else: print
Branch(p) ==
  /\ pc[p] = "branch"
  /\ IF status[p] = "completed"
       THEN /\ output_uri' = [output_uri EXCEPT ![p] = task[p].OutputUri]
            /\ printed' = [printed EXCEPT ![p] = "Completed"]
            /\ pc' = [pc EXCEPT ![p] = "done"]
       ELSE IF status[p] = "failed"
         THEN /\ printed' = [printed EXCEPT ![p] = "Failed"]
              /\ pc' = [pc EXCEPT ![p] = "done"]
              /\ UNCHANGED output_uri
         ELSE /\ printed' = [printed EXCEPT ![p] = "Status"]
              /\ pc' = [pc EXCEPT ![p] = "sleep"]
              /\ UNCHANGED output_uri
  /\ UNCHANGED <<text, task_id, task, status, call, error, polls, slept,
                 svcStatus, s3>>
  /\ UNCHANGED nbVars

\* Sleep with a timeout: the loop gives up once it has slept before.
Sleep_GiveUp(p) ==
  /\ pc[p] = "sleep"
  /\ slept' = [slept EXCEPT ![p] = PollInterval]
  /\ pc' = [pc EXCEPT ![p] = IF slept[p] = 0 THEN "query" ELSE "done"]
  /\ UNCHANGED <<text, task_id, task, status, output_uri, printed, call, error,
                 polls, svcStatus, s3>>
  /\ UNCHANGED nbVars

\* Sleep with exponential backoff: every suspend after the first is twice as long.
Sleep_Backoff(p) ==
  /\ pc[p] = "sleep"
  /\ slept' = [slept EXCEPT ![p] = IF @ = 0 THEN PollInterval ELSE PollInterval * 2]
  /\ pc' = [pc EXCEPT ![p] = "query"]
  /\ UNCHANGED <<text, task_id, task, status, output_uri, printed, call, error,
                 polls, svcStatus, s3>>
  /\ UNCHANGED nbVars

\* time.sleep(2), then the loop's next iteration.
Sleep(p) ==
  /\ pc[p] = "sleep"
  /\ slept' = [slept EXCEPT ![p] = PollInterval]
  /\ pc' = [pc EXCEPT ![p] = "query"]
  /\ UNCHANGED <<text, task_id, task, status, output_uri, printed, call, error,
                 polls, svcStatus, s3>>
  /\ UNCHANGED nbVars

\* The caller fixes a request: a text, a voice/engine pair that is supported or
\* not, an output format; the calls will go through, fail, or break off while
\* the stream is read.
NbPick ==
  /\ \E len \in NbTextLens, voiceOk \in BOOLEAN,
        e \in {"ok", "call_fails", "read_fails"}, fmt \in OutputFormats :
       nb' = [text |-> len, voice_ok |-> voiceOk, env |-> e, format |-> fmt,
              synth |-> "unset", audio_data |-> None, exc |-> "none",
              batch |-> "unset"]
  /\ UNCHANGED <<clientVars, svcStatus, s3, cellVars, listVars, gav>>

\* synthesize_speech that returns the response's stream without reading it.
SynthesizeSpeech_NoRead ==
  /\ nb.text # 0
  /\ nb.synth = "unset"
  /\ IF SyncAccepts(nb.text, nb.voice_ok, nb.env # "call_fails")
       THEN nb' = [nb EXCEPT !.synth = "returned",
                             !.audio_data = [kind |-> "stream", bytes |-> <<>>]]
       ELSE \E x \in SyncFaults(nb.text, nb.voice_ok, nb.env # "call_fails") :
              nb' = [nb EXCEPT !.synth = "returned", !.audio_data = None,
                               !.exc = x]
  /\ UNCHANGED <<clientVars, svcStatus, s3, cellVars, listVars, gav>>

\* synthesize_speech without its try/except: an exception of the call or of
\* the read leaves the function.
SynthesizeSpeech_Propagate ==
  /\ nb.text # 0
  /\ nb.synth = "unset"
  /\ IF SyncAccepts(nb.text, nb.voice_ok, nb.env # "call_fails")
       THEN IF nb.env = "read_fails"
              THEN nb' = [nb EXCEPT !.synth = "raised", !.exc = "ReadError"]
              ELSE nb' = [nb EXCEPT !.synth = "returned",
                            !.audio_data = Bytes(AudioStreamOf(nb.text, nb.format))]
       ELSE \E x \in SyncFaults(nb.text, nb.voice_ok, nb.env # "call_fails") :
              nb' = [nb EXCEPT !.synth = "raised", !.exc = x]
  /\ UNCHANGED <<clientVars, svcStatus, s3, cellVars, listVars, gav>>

\* def synthesize_speech(...): try: response = polly_client.synthesize_speech(...);
\* return response['AudioStream'].read() / except Exception: print; return None
SynthesizeSpeech ==
  /\ nb.text # 0
  /\ nb.synth = "unset"
  /\ IF SyncAccepts(nb.text, nb.voice_ok, nb.env # "call_fails")
       THEN IF nb.env = "read_fails"
              THEN nb' = [nb EXCEPT !.synth = "returned", !.audio_data = None,
                                    !.exc = "ReadError"]
              ELSE nb' = [nb EXCEPT !.synth = "returned",
                            !.audio_data = Bytes(AudioStreamOf(nb.text, nb.format))]
       ELSE \E x \in SyncFaults(nb.text, nb.voice_ok, nb.env # "call_fails") :
              nb' = [nb EXCEPT !.synth = "returned", !.audio_data = None,
                               !.exc = x]
  /\ UNCHANGED <<clientVars, svcStatus, s3, cellVars, listVars, gav>>

\* aws polly start-speech-synthesis-task --text file://... for the same request.
StartTask ==
  /\ nb.text # 0
  /\ nb.batch = "unset"
  /\ nb' = [nb EXCEPT !.batch =
              IF Accepts(nb.text, nb.voice_ok, nb.env # "call_fails")
                THEN "accepted" ELSE "rejected"]
  /\ UNCHANGED <<clientVars, svcStatus, s3, cellVars, listVars, gav>>

NbNext ==
  \/ NbPick
  \/ SynthesizeSpeech
  \/ StartTask

\* One request tried on the real-time path and on the batch path.
NbSpec == Init /\ [][NbNext]_vars

(* ------------------------- the notebook's helpers ----------------------- *)

\* output_dir = "audio_output"
output_dir == "audio_output"

\* os.path.join(output_dir, filename)
PathOf(filename) == output_dir \o "/" \o filename

\* Python's truth value of what audio_data may hold: None and b'' are false.
Truthy(audio_data) ==
  audio_data.kind = "bytes" /\ Len(audio_data.bytes) > 0

\* open(file_path, 'wb') followed by file.write(b): the file holds b and
\* nothing else.
Written(fs, path, b) == {f \in fs : f[1] # path} \cup {<<path, b>>}

\* What may happen to a write: it goes through, open() fails, or write()
\* fails after open() has created or truncated the file.
DiskStates == {"ok", "open_fails", "write_fails"}

\* save_audio_file that tests audio_data against None instead of its truth
\* value.
save_audio_file_NotNone(fs, audio_data, filename, disk) ==
  IF audio_data # None
    THEN CASE disk = "ok" ->
                [files |-> Written(fs, PathOf(filename), audio_data.bytes),
                 printed |-> <<"Audio saved">>, raised |-> FALSE]
           [] disk = "open_fails" ->
                [files |-> fs,
                 printed |-> <<"Error saving audio file">>, raised |-> FALSE]
           [] OTHER ->
                [files |-> Written(fs, PathOf(filename), <<>>),
                 printed |-> <<"Error saving audio file">>, raised |-> FALSE]
    ELSE [files |-> fs, printed |-> <<>>, raised |-> FALSE]

\* def save_audio_file(audio_data, filename): if audio_data: ... try: with
\* open(file_path, 'wb') as file: file.write(audio_data); print / except
\* Exception: print.  The files after the call, the lines printed, and whether
\* an exception left the function.
save_audio_file(fs, audio_data, filename, disk) ==
  IF Truthy(audio_data)
    THEN CASE disk = "ok" ->
                [files |-> Written(fs, PathOf(filename), audio_data.bytes),
                 printed |-> <<"Audio saved">>, raised |-> FALSE]
           [] disk = "open_fails" ->
                [files |-> fs,
                 printed |-> <<"Error saving audio file">>, raised |-> FALSE]
           [] OTHER ->
                [files |-> Written(fs, PathOf(filename), <<>>),
                 printed |-> <<"Error saving audio file">>, raised |-> FALSE]
    ELSE [files |-> fs, printed |-> <<>>, raised |-> FALSE]

\* def play_audio(audio_data, ...): if audio_data: return Audio(...).  Whether
\* an exception leaves the function: only Audio() can raise one.
play_audio(audio_data, audioOk) == Truthy(audio_data) /\ ~audioOk

\* The values handed to save_audio_file: None, b'', and audio of two requests.
AudioValues ==
  {None, Bytes(<<>>), Bytes(AudioStreamOf(SyncLimit, "mp3")),
   Bytes(AudioStreamOf(SyncLimit, "pcm"))}

\* Two of the notebook's file names.
FileNames == {"standard_joanna.mp3", "ssml_news_style.mp3"}

\* One helper call as the cells make it.
HelperCall(fn, voice, eng, filename, audio, disk) ==
  [fn |-> fn, voice_id |-> voice, engine |-> eng, filename |-> filename,
   audio_data |-> audio, disk |-> disk]

\* save_audio_file(audio_data, filename) called on its own.
SaveAudioFile ==
  /\ \E audio \in AudioValues, filename \in FileNames, disk \in DiskStates :
       LET r == save_audio_file(files, audio, filename, disk) IN
         /\ files' = r.files
         /\ console' = r.printed
         /\ cell' = [name |-> "save_audio_file", pc |-> "done",
                     in_except |-> r.raised]
         /\ calls' = <<HelperCall("save_audio_file", "", "", filename, audio, disk)>>
  /\ UNCHANGED <<clientVars, svcStatus, s3, nb, listVars, gav>>

SaveNext == SaveAudioFile

\* save_audio_file called again and again on one directory.
SaveSpec == Init /\ [][SaveNext]_vars

(* --------------------------- the voice catalog -------------------------- *)

Engines == <<"standard", "neural", "long-form", "generative">>

\* The voices of the multilingual examples, with their language.
NbVoiceIds == {"Lupe", "Lea", "Vicki"}
LanguageOf(id) ==
  CASE id = "Lupe" -> "es-US" [] id = "Lea" -> "fr-FR" [] OTHER -> "de-DE"

\* The SupportedEngines a voice of the catalog may carry.
EngineLists ==
  {<<>>, <<"standard">>, <<"neural">>, <<"standard", "neural">>,
   <<"neural", "long-form">>, <<"generative">>}

\* One entry of response['Voices']: with SupportedEngines, or without the field.
CatalogVoices ==
  {[Id |-> id, LanguageCode |-> LanguageOf(id), Gender |-> "Female",
    SupportedEngines |-> engs] : id \in NbVoiceIds, engs \in EngineLists}
    \cup {[Id |-> id, LanguageCode |-> LanguageOf(id), Gender |-> "Female"] :
            id \in NbVoiceIds}

\* x in seq, for a Python list.
In(x, seq) == \E i \in 1..Len(seq) : seq[i] = x

\* The catalogs describe_voices may return: up to MaxVoices voices, each voice
\* once.
Catalogs ==
  {c \in UNION {[1..n -> CatalogVoices] : n \in 0..MaxVoices} :
     \A i, j \in 1..Len(c) : c[i].Id = c[j].Id => i = j}

\* voice_info = {'Id': ..., 'LanguageCode': ..., 'Gender': ...}
VoiceInfo(voice) ==
  [Id |-> voice.Id, LanguageCode |-> voice.LanguageCode, Gender |-> voice.Gender]

\* voice.get('SupportedEngines', [])
SupportedEnginesOf(voice) ==
  IF "SupportedEngines" \in DOMAIN voice THEN voice.SupportedEngines ELSE <<>>

\* The engines before eng in the order the loop tests them.
Earlier(eng) ==
  {Engines[i] : i \in {k \in 1..Len(Engines) :
                          \E m \in 1..Len(Engines) : m > k /\ Engines[m] = eng}}

\* The loop with its tests chained by elif: a voice goes to the list of the
\* first engine it supports only.
RECURSIVE Categorize_Elif(_, _, _)
Categorize_Elif(voices, eng, acc) ==
  IF voices = <<>>
    THEN acc
    ELSE Categorize_Elif(Tail(voices), eng,
           IF /\ In(eng, SupportedEnginesOf(Head(voices)))
              /\ \A e \in Earlier(eng) : ~In(e, SupportedEnginesOf(Head(voices)))
             THEN Append(acc, VoiceInfo(Head(voices)))
             ELSE acc)

\* for voice in response['Voices']: ... if eng in supported_engines:
\* <list of eng>.append(voice_info).  The list of engine eng after the loop
\* over voices, started from acc.
RECURSIVE Categorize(_, _, _)
Categorize(voices, eng, acc) ==
  IF voices = <<>>
    THEN acc
    ELSE Categorize(Tail(voices), eng,
           IF In(eng, SupportedEnginesOf(Head(voices)))
             THEN Append(acc, VoiceInfo(Head(voices)))
             ELSE acc)

\* The cell that lists the voices: describe_voices(), the four empty lists, the
\* loop, the four counts printed.
ListVoices ==
  /\ cell.pc \in {"idle", "done"}
  /\ \E cat \in Catalogs :
       /\ response' = cat
       /\ standard_voices' = Categorize(cat, "standard", <<>>)
       /\ neural_voices' = Categorize(cat, "neural", <<>>)
       /\ long_form_voices' = Categorize(cat, "long-form", <<>>)
       /\ generative_voices' = Categorize(cat, "generative", <<>>)
  /\ cell' = [name |-> "list_voices", pc |-> "done", in_except |-> FALSE]
  /\ console' = <<"Available Voices">>
  /\ calls' = <<>>
  /\ UNCHANGED <<clientVars, svcStatus, s3, nb, files, gav>>

ListNext == cell.name = "none" /\ ListVoices

\* The voice listing cell run once, on any catalog.
ListSpec == Init /\ [][ListNext]_vars

(* --------------------------- the example cells -------------------------- *)

\* The example texts are short: the shortest length tried.
CellTextLen == CHOOSE n \in NbTextLens : \A m \in NbTextLens : n <= m

\* What the environment does to a call: let it through, fail it, or break off
\* the read of its stream.
Envs == {"ok", "call_fails", "read_fails"}

\* A cell calls synthesize_speech(text, voice_id, engine, ...) after the calls
\* before: the request is handed over and the cell waits at position at for
\* the function to end.
StartCall(name, at, voice, eng, inExcept, said, before) ==
  /\ \E voiceOk \in BOOLEAN, e \in Envs :
       nb' = [text |-> CellTextLen, voice_ok |-> voiceOk, env |-> e,
              format |-> "mp3", synth |-> "unset", audio_data |-> None,
              exc |-> "none", batch |-> "unset"]
  /\ calls' = Append(before,
                     HelperCall("synthesize_speech", voice, eng, "", None, ""))
  /\ cell' = [name |-> name, pc |-> at, in_except |-> inExcept]
  /\ console' = said

\* The calls of the cell with the result of the call that has just ended.
Returned == [calls EXCEPT ![Len(calls)].audio_data = nb.audio_data]

\* A statement of a cell that is in no try block raises: the cell ends there.
Uncaught ==
  /\ cell' = [cell EXCEPT !.pc = "done"]
  /\ console' = <<"Traceback">>
  /\ calls' = Returned
  /\ UNCHANGED files

\* save_audio_file(audio, filename); play_audio(audio) in no try block, which
\* ends the cell.
SaveAndPlay(filename) ==
  \E disk \in DiskStates, audioOk \in BOOLEAN :
    LET r == save_audio_file(files, nb.audio_data, filename, disk) IN
      /\ files' = r.files
      /\ calls' = Returned
      /\ cell' = [cell EXCEPT !.pc = "done"]
      /\ console' = IF r.raised \/ play_audio(nb.audio_data, audioOk)
                      THEN r.printed \o <<"Traceback">>
                      ELSE r.printed

\* The multilingual examples: the voice_id each passes, the Id each looks up
\* in neural_voices, and the file each saves.
MultilingualExamples == {"spanish", "french", "german"}
VoiceIdOf(ex) ==
  CASE ex = "spanish" -> "Lupe" [] ex = "french" -> "Lea" [] OTHER -> "Vicki"
TestedIdOf(ex) ==
  CASE ex = "spanish" -> "Lupe" [] ex = "french" -> "Léa" [] OTHER -> "Vicki"
DemoFileOf(ex) ==
  CASE ex = "spanish" -> "spanish_demo.mp3"
    [] ex = "french" -> "french_demo.mp3"
    [] OTHER -> "german_demo.mp3"

\* any(voice['Id'] == id for voice in list)
AnyId(list, id) == \E i \in 1..Len(list) : list[i].Id = id

\* A multilingual cell up to its call of synthesize_speech.
MultilingualCell(ex) ==
  /\ cell.pc \in {"idle", "done"}
  /\ StartCall(ex, "call", VoiceIdOf(ex),
               IF AnyId(neural_voices, TestedIdOf(ex)) THEN "neural" ELSE "standard",
               FALSE, <<>>, <<>>)
  /\ UNCHANGED <<clientVars, svcStatus, s3, files, listVars, gav>>

\* The rest of a multilingual cell: save_audio_file, play_audio.
MultilingualEnd ==
  /\ cell.name \in MultilingualExamples
  /\ cell.pc = "call"
  /\ nb.synth # "unset"
  /\ IF nb.synth = "raised" THEN Uncaught ELSE SaveAndPlay(DemoFileOf(cell.name))
  /\ UNCHANGED <<clientVars, svcStatus, s3, nb, listVars, gav>>

LangNext ==
  \/ cell.name = "none" /\ ListVoices
  \/ \E ex \in MultilingualExamples : MultilingualCell(ex)
  \/ SynthesizeSpeech
  \/ MultilingualEnd

\* The voice listing, run first, and then the multilingual examples in any
\* order.
LangSpec == Init /\ [][LangNext]_vars

\* The news style cell up to its call of synthesize_speech, inside try.
NewsCell ==
  /\ cell.pc \in {"idle", "done"}
  /\ StartCall("news", "call", "Matthew", "neural", FALSE, <<>>, <<>>)
  /\ UNCHANGED <<clientVars, svcStatus, s3, files, listVars, gav>>

\* The rest of the news style cell: save_audio_file and play_audio inside the
\* try, print the note in the except branch.
NewsEnd ==
  /\ cell.name = "news"
  /\ cell.pc = "call"
  /\ nb.synth # "unset"
  /\ IF nb.synth = "raised"
       THEN /\ cell' = [cell EXCEPT !.pc = "done", !.in_except = TRUE]
            /\ console' = <<"Note">>
            /\ UNCHANGED <<calls, files>>
       ELSE \E disk \in DiskStates, audioOk \in BOOLEAN :
              LET r == save_audio_file(files, nb.audio_data,
                                       "ssml_news_style.mp3", disk)
                  raised == r.raised \/ play_audio(nb.audio_data, audioOk)
              IN  /\ files' = r.files
                  /\ calls' = Returned
                  /\ cell' = [cell EXCEPT !.pc = "done", !.in_except = raised]
                  /\ console' = IF raised THEN r.printed \o <<"Note">>
                                          ELSE r.printed
  /\ UNCHANGED <<clientVars, svcStatus, s3, nb, listVars, gav>>

\* The long-form cell up to its first call of synthesize_speech: inside the
\* try if a long-form voice was listed, in the else branch if none was.
LongFormCell ==
  /\ cell.pc \in {"idle", "done"}
  /\ IF long_form_voices # <<>>
       THEN StartCall("long_form", "try", long_form_voices[1].Id, "long-form",
                      FALSE, <<>>, <<>>)
       ELSE StartCall("long_form", "else", "Joanna", "neural", FALSE,
                      <<"No long-form voices detected">>, <<>>)
  /\ UNCHANGED <<clientVars, svcStatus, s3, files, listVars, gav>>

\* The rest of the try block, save_audio_file and play_audio, and, if an
\* exception left it, the except branch up to its call of synthesize_speech.
LongFormTry ==
  /\ cell.name = "long_form"
  /\ cell.pc = "try"
  /\ nb.synth # "unset"
  /\ \E disk \in DiskStates, audioOk \in BOOLEAN :
       LET r == save_audio_file(files, nb.audio_data, "long_form_demo.mp3", disk)
           raised == \/ nb.synth = "raised"
                     \/ r.raised
                     \/ play_audio(nb.audio_data, audioOk)
       IN  /\ files' = IF nb.synth = "raised" THEN files ELSE r.files
           /\ IF raised
                THEN StartCall("long_form", "except", "Joanna", "neural", TRUE,
                               <<"Error with long-form engine",
                                 "Falling back to neural engine">>, Returned)
                ELSE /\ calls' = Returned
                     /\ cell' = [cell EXCEPT !.pc = "done"]
                     /\ console' = r.printed
                     /\ UNCHANGED nb
  /\ UNCHANGED <<clientVars, svcStatus, s3, listVars, gav>>

\* After the neural call of the except or else branch: save_audio_file(
\* neural_audio, "neural_long_text.mp3"), play_audio.
LongFormNeural ==
  /\ cell.name = "long_form"
  /\ cell.pc \in {"except", "else"}
  /\ nb.synth # "unset"
  /\ IF nb.synth = "raised" THEN Uncaught ELSE SaveAndPlay("neural_long_text.mp3")
  /\ UNCHANGED <<clientVars, svcStatus, s3, nb, listVars, gav>>

CellNext ==
  \/ NewsCell
  \/ \E ex \in MultilingualExamples : MultilingualCell(ex)
  \/ SynthesizeSpeech
  \/ NewsEnd
  \/ MultilingualEnd

\* Cells that call synthesize_speech inside a try block and outside one, run
\* in any order on one directory.
CellSpec == Init /\ [][CellNext]_vars

LongFormNext ==
  \/ cell.name = "none" /\ ListVoices
  \/ LongFormCell
  \/ SynthesizeSpeech
  \/ LongFormTry
  \/ LongFormNeural

\* The voice listing, run first, and then the long-form cell again and again.
LongFormSpec == Init /\ [][LongFormNext]_vars

(* ------------------------ dynamic voice selection ----------------------- *)

\* A Python str and a Python list, told apart from None.
PyStr(str) == [kind |-> "str", s |-> str]
PyList(items) == [kind |-> "list", items |-> items]

\* Python's truth value of None, a str or a list.
IsTrue(x) ==
  CASE x.kind = "str" -> x.s # ""
    [] x.kind = "list" -> x.items # <<>>
    [] OTHER -> FALSE

\* str.lower() on the spellings of a gender.
Lower(str) ==
  CASE str \in {"Female", "FEMALE", "female"} -> "female"
    [] str \in {"Male", "MALE", "male"} -> "male"
    [] OTHER -> str

\* The voices of the service, each with its language and gender.
GavVoiceIds == {"Joanna", "Matthew", "Lucia"}
GavLanguageOf(id) == IF id = "Lucia" THEN "es-ES" ELSE "en-US"
GavGenderOf(id) == IF id = "Matthew" THEN "Male" ELSE "Female"

\* The language codes asked for; no voice speaks the last.
GavLanguages == {"en-US", "es-ES", "fr-BE"}

\* The values of gender_preference: the default None, the empty string, and
\* spellings of the two genders.
GenderPreferences ==
  {None, PyStr(""), PyStr("female"), PyStr("Female"), PyStr("MALE")}

\* The values of a voice's SupportedEngines: None, an empty list, lists with
\* and without 'neural'.
GavEngineLists ==
  {None, PyList(<<>>), PyList(<<"standard">>), PyList(<<"neural">>),
   PyList(<<"standard", "neural">>)}

GavVoices ==
  {[Id |-> id, LanguageCode |-> GavLanguageOf(id), Gender |-> GavGenderOf(id),
    SupportedEngines |-> engs] : id \in GavVoiceIds, engs \in GavEngineLists}

\* The catalogs of the service: up to MaxVoices voices, each voice once.
GavCatalogs ==
  {c \in UNION {[1..n -> GavVoices] : n \in 0..MaxVoices} :
     \A i, j \in 1..Len(c) : c[i].Id = c[j].Id => i = j}

\* polly.describe_voices(LanguageCode=language_code)['Voices']: the voices of
\* the catalog that speak the language, in catalog order.
DescribeVoices(catalog, language_code) ==
  SelectSeq(catalog, LAMBDA v : v.LanguageCode = language_code)

\* get_appropriate_voice that looks for a neural voice before it filters by
\* gender.
get_appropriate_voice_NeuralFirst(voices, gender_preference) ==
  LET filtered ==
        IF IsTrue(gender_preference)
          THEN SelectSeq(voices,
                 LAMBDA v : Lower(v.Gender) = Lower(gender_preference.s))
          ELSE voices
      neural ==
        SelectSeq(voices,
          LAMBDA v : IsTrue(v.SupportedEngines)
                       /\ In("neural", v.SupportedEngines.items))
  IN  IF neural # <<>>
        THEN [outcome |-> "returned", id |-> neural[1].Id, exc |-> "none"]
        ELSE IF filtered # <<>>
          THEN [outcome |-> "returned", id |-> filtered[1].Id, exc |-> "none"]
          ELSE [outcome |-> "raised", id |-> "", exc |-> "No voice found"]

\* get_appropriate_voice without the truth test on SupportedEngines: 'neural'
\* in None raises TypeError.
get_appropriate_voice_NoGuard(voices, gender_preference) ==
  LET filtered ==
        IF IsTrue(gender_preference)
          THEN SelectSeq(voices,
                 LAMBDA v : Lower(v.Gender) = Lower(gender_preference.s))
          ELSE voices
      neural ==
        SelectSeq(filtered,
          LAMBDA v : v.SupportedEngines.kind = "list"
                       /\ In("neural", v.SupportedEngines.items))
  IN  IF \E i \in 1..Len(filtered) : filtered[i].SupportedEngines = None
        THEN [outcome |-> "raised", id |-> "", exc |-> "TypeError"]
        ELSE IF neural # <<>>
          THEN [outcome |-> "returned", id |-> neural[1].Id, exc |-> "none"]
          ELSE IF filtered # <<>>
            THEN [outcome |-> "returned", id |-> filtered[1].Id, exc |-> "none"]
            ELSE [outcome |-> "raised", id |-> "", exc |-> "No voice found"]

\* def get_appropriate_voice(language_code, gender_preference=None), after
\* voices = response['Voices']: the gender filter, the neural voices among the
\* filtered, and the return or the raise.
get_appropriate_voice(voices, gender_preference) ==
  LET filtered ==
        IF IsTrue(gender_preference)
          THEN SelectSeq(voices,
                 LAMBDA v : Lower(v.Gender) = Lower(gender_preference.s))
          ELSE voices
      neural ==
        SelectSeq(filtered,
          LAMBDA v : IsTrue(v.SupportedEngines)
                       /\ In("neural", v.SupportedEngines.items))
  IN  IF neural # <<>>
        THEN [outcome |-> "returned", id |-> neural[1].Id, exc |-> "none"]
        ELSE IF filtered # <<>>
          THEN [outcome |-> "returned", id |-> filtered[1].Id, exc |-> "none"]
          ELSE [outcome |-> "raised", id |-> "", exc |-> "No voice found"]

\* One call of get_appropriate_voice against some catalog of the service.
GetAppropriateVoice ==
  /\ ~gav.called
  /\ \E language_code \in GavLanguages, gender_preference \in GenderPreferences,
        catalog \in GavCatalogs :
       LET voices == DescribeVoices(catalog, language_code)
           r == get_appropriate_voice(voices, gender_preference)
       IN  gav' = [called |-> TRUE, language_code |-> language_code,
                   gender_preference |-> gender_preference, voices |-> voices,
                   outcome |-> r.outcome, id |-> r.id, exc |-> r.exc]
  /\ UNCHANGED <<clientVars, svcStatus, s3, nb, cellVars, listVars>>

GavNext == GetAppropriateVoice

\* One call of get_appropriate_voice, with any arguments.
GavSpec == Init /\ [][GavNext]_vars

Next ==
  \/ \E p \in Pollers : Submit(p)
  \/ \E p \in Pollers : AwaitGiven(p)
  \/ \E p \in Pollers : Query(p)
  \/ \E p \in Pollers : Branch(p)
  \/ \E p \in Pollers : Sleep(p)
  \/ \E id \in TaskIds : SvcStart(id)
  \/ \E id \in TaskIds : SvcComplete(id)
  \/ \E id \in TaskIds : SvcFail(id)

Spec == Init /\ [][Next]_vars

\* The script runs on: a poller that can take its next step takes it.
ClientFairness ==
  \A p \in Pollers :
    WF_vars(Query(p)) /\ WF_vars(Branch(p)) /\ WF_vars(Sleep(p))

\* The service works on every task it has accepted until the task has ended.
ServiceFairness ==
  \A id \in TaskIds :
    WF_vars(SvcStart(id)) /\ WF_vars(SvcComplete(id) \/ SvcFail(id))

\* The submitter of task id has issued its first query.
SubmitterPolled(id) ==
  \A p \in Pollers : (task_id[p] = id /\ text[p] # 0) => polls[p] >= 1

\* A slow backend: the service does not touch a task before its submitter's
\* first query.
SlowNext ==
  \/ \E p \in Pollers : Submit(p)
  \/ \E p \in Pollers : AwaitGiven(p)
  \/ \E p \in Pollers : Query(p)
  \/ \E p \in Pollers : Branch(p)
  \/ \E p \in Pollers : Sleep(p)
  \/ \E id \in TaskIds : SubmitterPolled(id) /\ SvcStart(id)
  \/ \E id \in TaskIds : SubmitterPolled(id) /\ SvcComplete(id)
  \/ \E id \in TaskIds : SubmitterPolled(id) /\ SvcFail(id)

SlowSpec == Init /\ [][SlowNext]_vars

\* Status values outside the vocabulary the loop tests for.
OddStatuses == {"Completed", "cancelled"}

\* The service reports, for a task that has not ended, a status outside the
\* vocabulary.
SvcOdd(id) ==
  /\ svcStatus[id] \in {"scheduled", "inProgress"}
  /\ \E s \in OddStatuses :
       svcStatus' = [svcStatus EXCEPT ![id] = s]
  /\ UNCHANGED <<clientVars, s3>>
  /\ UNCHANGED nbVars

\* The client against a service whose status vocabulary is wider than the
\* documented one.
WideNext ==
  \/ Next
  \/ \E id \in TaskIds : SvcOdd(id)

WideSpec == Init /\ [][WideNext]_vars

\* The pollers run on; the service may take for ever.
ClientFairSpec == Spec /\ ClientFairness

\* The pollers run on and the service ends every task.
FairSpec == Spec /\ ClientFairness /\ ServiceFairness

TypeOK ==
  /\ pc \in [Pollers -> {"start", "query", "branch", "sleep", "done", "raised"}]
  /\ text \in [Pollers -> TextLens \cup {0}]
  /\ task_id \in [Pollers -> TaskIds \cup {NoTask}]
  /\ status \in [Pollers -> Statuses \cup {NoStatus}]
  /\ call \in [Pollers -> {"none", "returned", "raised"}]
  /\ error \in [Pollers -> {"none", "SubmissionError", "PollError"}]
  /\ polls \in [Pollers -> 0..MaxPolls]
  /\ slept \in [Pollers -> {0, PollInterval}]
  /\ svcStatus \in [TaskIds -> Statuses \cup {NoStatus}]

(* ------------------------------ properties ----------------------------- *)

\* C1: awaitCompletion never returns a non-terminal status: whenever the poll
\* loop has exited normally, the last status it observed is 'completed' or
\* 'failed'.
C1_ReturnsOnlyTerminal ==
  \A p \in Pollers :
    pc[p] = "done" =>
      /\ status[p] \in Terminal
      /\ task[p].TaskStatus = status[p]

\* A loop that exited after it had polled, slept and polled again.
C1_Witness ==
  \E p \in Pollers :
    pc[p] = "done" /\ polls[p] = MaxPolls /\ slept[p] = PollInterval

\* C2: once the service holds a terminal status for the task and no query
\* raises, the loop eventually exits: with the task's output location on
\* 'completed', with the failure signal on 'failed'.
C2_ExitsOnceTerminal ==
  \A p \in Pollers :
    []((/\ pc[p] \in {"query", "branch", "sleep"}
        /\ Known(task_id[p])
        /\ svcStatus[task_id[p]] \in Terminal)
       => <>(\/ pc[p] = "raised"
             \/ /\ pc[p] = "done"
                /\ status[p] = svcStatus[task_id[p]]
                /\ status[p] = "completed" =>
                     /\ output_uri[p] = OutputUriOf(task_id[p])
                     /\ printed[p] = "Completed"
                /\ status[p] = "failed" =>
                     /\ output_uri[p] = ""
                     /\ printed[p] = "Failed"))

\* A loop that exited with the output location of its completed task.
C2_Witness ==
  \E p \in Pollers :
    /\ pc[p] = "done" /\ status[p] = "completed"
    /\ output_uri[p] = OutputUriOf(task_id[p])
    /\ printed[p] = "Completed"

\* C3: the statuses that polls of one task observe never move backwards in
\* scheduled -> inProgress -> {completed, failed}, and once a poll has
\* observed a terminal status every later poll of that task observes the same.
C3_StatusMonotonic ==
  [][\A q \in Pollers :
       (pc[q] = "query" /\ pc'[q] = "branch") =>
         \A p \in Pollers :
           (task_id[p] = task_id[q] /\ status[p] # NoStatus) =>
             /\ Rank(status'[q]) >= Rank(status[p])
             /\ status[p] \in Terminal => status'[q] = status[p]]_vars

\* Two pollers of one task have both observed its terminal status.
C3_Witness ==
  \E p, q \in Pollers :
    /\ p # q /\ task_id[p] = task_id[q]
    /\ status[p] \in Terminal /\ status[q] = status[p]
    /\ polls[p] = MaxPolls

\* C4 as stated: a text over the real-time ceiling submitted on the
\* asynchronous path ends with status 'completed' and a non-empty output
\* location.
C4_AlwaysCompleted ==
  \A p \in Pollers :
    (text[p] > SyncLimit /\ pc[p] = "done") =>
      (status[p] = "completed" /\ output_uri[p] # "")

\* C4, amended: for a text over the real-time ceiling that the service
\* accepts, submit returns a task id and, the service ending the task,
\* polling ends with 'completed' and a non-empty output location, or with
\* 'failed', or with a query that raised.
C4_CompletedOrFailed ==
  \A p \in Pollers :
    []((text[p] > SyncLimit /\ error[p] # "SubmissionError") =>
         /\ task_id[p] \in TaskIds
         /\ <>(\/ pc[p] = "raised"
               \/ pc[p] = "done" /\ status[p] = "failed"
               \/ /\ pc[p] = "done" /\ status[p] = "completed"
                  /\ output_uri[p] # ""
                  /\ output_uri[p] = task[p].OutputUri))

\* A text of the batch ceiling's length ended completed after several polls.
C4_Witness ==
  \E p \in Pollers :
    /\ text[p] = BatchLimit /\ pc[p] = "done" /\ status[p] = "completed"
    /\ output_uri[p] # "" /\ polls[p] = MaxPolls

\* C5: every accepted submit returns a non-empty task id, and two submit
\* calls, identical arguments or not, never return the same id.
C5_DistinctIds ==
  \A p \in Pollers :
    (text[p] # 0 /\ error[p] # "SubmissionError") =>
      /\ task_id[p] # ""
      /\ Len(task_id[p]) > 0
      /\ \A q \in Pollers \ {p} :
           (text[q] # 0 /\ error[q] # "SubmissionError") =>
             task_id[q] # task_id[p]

\* Two submit calls with the same text have both returned.
C5_Witness ==
  \E p, q \in Pollers :
    /\ p # q /\ text[p] # 0 /\ text[p] = text[q]
    /\ call[p] = "returned" /\ call[q] = "returned"

\* C6: a query for an id no submit has returned raises PollError and yields
\* no status, whatever other tasks exist.
C6_UnknownIdRaises ==
  [][\A p \in Pollers :
       (pc[p] = "query" /\ pc'[p] # "query" /\ task_id[p] \notin Issued) =>
         /\ call'[p] = "raised"
         /\ pc'[p] = "raised"
         /\ error'[p] = "PollError"
         /\ status'[p] = status[p]
         /\ task'[p] = task[p]]_vars

\* A poller of an unknown id has raised while the service holds other tasks.
C6_Witness ==
  \E p \in Pollers :
    /\ error[p] = "PollError" /\ task_id[p] \in TaskIds
    /\ task_id[p] \notin Issued /\ Issued # {}
    /\ status[p] = NoStatus

\* C7: the loop has no attempt limit and no cancellation: on a non-terminal
\* status it always suspends, a suspend is always followed by another query,
\* and that query is issued.
C7_PollsWithoutLimit ==
  /\ [][\A p \in Pollers :
          /\ (pc[p] = "branch" /\ status[p] \notin Terminal /\ pc'[p] # "branch")
               => pc'[p] = "sleep"
          /\ (pc[p] = "sleep" /\ pc'[p] # "sleep") => pc'[p] = "query"]_vars
  /\ \A p \in Pollers : (pc[p] = "sleep") ~> (pc[p] \in {"branch", "raised"})

\* A loop that has issued MaxPolls queries and suspended before is suspended
\* again, its task not ended.
C7_Witness ==
  \E p \in Pollers :
    /\ pc[p] = "sleep" /\ polls[p] = MaxPolls /\ slept[p] = PollInterval
    /\ status[p] \notin Terminal

\* C8: a 'failed' status ends the loop normally with the failure signal: no
\* exception is raised and no further query is issued.
C8_FailedEndsNormally ==
  [][\A p \in Pollers :
       /\ (pc[p] = "branch" /\ status[p] = "failed" /\ pc'[p] # "branch") =>
            /\ pc'[p] = "done"
            /\ printed'[p] = "Failed"
            /\ error'[p] = "none"
       /\ (pc[p] = "done" /\ status[p] = "failed") =>
            /\ pc'[p] = "done"
            /\ polls'[p] = polls[p]
            /\ error'[p] = "none"
            /\ status'[p] = "failed"]_vars

\* A loop has ended on 'failed'.
C8_Witness ==
  \E p \in Pollers :
    pc[p] = "done" /\ status[p] = "failed" /\ printed[p] = "Failed"

\* C9: a rejected submission raises SubmissionError, returns no task id,
\* creates no task, is not retried and is followed by no query.
C9_RejectedSubmit ==
  [][\A p \in Pollers :
       /\ (pc[p] = "start" /\ call'[p] = "raised") =>
            /\ pc'[p] = "raised"
            /\ error'[p] = "SubmissionError"
            /\ task_id'[p] = NoTask
            /\ svcStatus' = svcStatus
       /\ error[p] = "SubmissionError" =>
            /\ pc'[p] = "raised"
            /\ error'[p] = "SubmissionError"
            /\ task_id'[p] = NoTask
            /\ text'[p] = text[p]
            /\ polls'[p] = 0]_vars

\* A submission over the batch ceiling was rejected while another task exists.
C9_Witness ==
  \E p \in Pollers :
    /\ error[p] = "SubmissionError" /\ text[p] = BatchLimit + 1
    /\ Issued # {}

\* C10: a query that fails ends the loop at once with PollError: no retry,
\* no suspend, no further query for the task.
C10_PollErrorSurfaces ==
  [][\A p \in Pollers :
       /\ (pc[p] = "query" /\ pc'[p] # "query" /\ call'[p] = "raised") =>
            /\ pc'[p] = "raised"
            /\ error'[p] = "PollError"
            /\ slept'[p] = slept[p]
       /\ error[p] = "PollError" =>
            /\ pc'[p] = "raised"
            /\ error'[p] = "PollError"
            /\ polls'[p] = polls[p]
            /\ slept'[p] = slept[p]]_vars

\* A query for a known task has failed after an earlier one succeeded.
C10_Witness ==
  \E p \in Pollers :
    /\ error[p] = "PollError" /\ Known(task_id[p])
    /\ status[p] \in Statuses /\ polls[p] = MaxPolls

\* C11: submit validates nothing locally: every submit, oversized text and
\* unsupported voice included, makes the external call, raises exactly when
\* that call raised, and is made once.
C11_NoLocalValidation ==
  [][\A p \in Pollers :
       /\ (pc[p] = "start" /\ text'[p] # 0) =>
            /\ call'[p] \in {"returned", "raised"}
            /\ error'[p] = "SubmissionError" <=> call'[p] = "raised"
            /\ pc'[p] = "raised" <=> call'[p] = "raised"
       /\ text[p] # 0 => (text'[p] = text[p] /\ pc'[p] # "start")]_vars

\* An oversized text and a text of valid length were both sent to the service
\* and rejected by it.
C11_Witness ==
  \E p, q \in Pollers :
    /\ text[p] = BatchLimit + 1 /\ call[p] = "raised"
    /\ text[q] = SyncLimit /\ call[q] = "raised"
    /\ error[p] = "SubmissionError" /\ error[q] = "SubmissionError"

\* C12 as stated: a task record whose status is not 'completed' carries no
\* output location.
C12_NoUriUntilCompleted ==
  \A p \in Pollers :
    (task[p].TaskId # NoTask /\ task[p].TaskStatus # "completed") =>
      task[p].OutputUri = ""

\* C12, amended: the client's output location is set only when the status it
\* observed is 'completed'; the task record returned by submit or poll
\* carries the task's OutputUri from submission on, whatever the status.
C12_UriReadOnlyOnCompleted ==
  \A p \in Pollers :
    /\ output_uri[p] # "" =>
         /\ status[p] = "completed"
         /\ pc[p] = "done"
         /\ output_uri[p] = task[p].OutputUri
    /\ task[p].TaskId # NoTask =>
         /\ task[p].OutputUri = OutputUriOf(task[p].TaskId)
         /\ Len(task[p].OutputUri) > 0

\* A poller suspended on an inProgress task: its record carries the OutputUri,
\* its own output location is unset.
C12_Witness ==
  \E p \in Pollers :
    /\ pc[p] = "sleep" /\ status[p] = "inProgress"
    /\ task[p].OutputUri # "" /\ output_uri[p] = ""

\* C13: against a slow backend the first query after submit observes a
\* non-terminal status, never 'completed'.
C13_FirstPollNotTerminal ==
  \A p \in Pollers :
    (text[p] # 0 /\ polls[p] = 1 /\ pc[p] = "branch") =>
      /\ status[p] \in Statuses \ Terminal
      /\ status[p] # "completed"

\* A submitter has read 'scheduled' with its first query.
C13_Witness ==
  \E p \in Pollers :
    /\ text[p] # 0 /\ polls[p] = 1 /\ pc[p] = "branch"
    /\ status[p] = "scheduled" /\ call[p] = "returned"

\* C14: 'completed' is never observable before the audio is written: whenever
\* the service holds or a poll has reported 'completed', the object is in the
\* bucket at the reported location, and objects stay in the bucket.
C14_CompletedAfterWrite ==
  /\ [](/\ \A id \in TaskIds :
             svcStatus[id] = "completed" => OutputUriOf(id) \in s3
        /\ \A p \in Pollers :
             task[p].TaskStatus = "completed" => task[p].OutputUri \in s3)
  /\ [][s3 \subseteq s3']_vars

\* A poller has reported the location of a completed task, the object there.
C14_Witness ==
  \E p \in Pollers :
    /\ pc[p] = "done" /\ status[p] = "completed"
    /\ output_uri[p] \in s3

\* C17: pollers do not interfere: a step of one poller changes nothing of
\* another poller and no task but its own, a query reads the status of the
\* poller's own task, and a poller's final result is that of its own task.
C17_NoInterference ==
  /\ [][\A p, q \in Pollers :
          (p # q /\ pc'[p] # pc[p]) =>
            /\ pc'[q] = pc[q] /\ text'[q] = text[q]
            /\ task_id'[q] = task_id[q] /\ task'[q] = task[q]
            /\ status'[q] = status[q] /\ output_uri'[q] = output_uri[q]
            /\ printed'[q] = printed[q] /\ call'[q] = call[q]
            /\ error'[q] = error[q] /\ polls'[q] = polls[q]
            /\ slept'[q] = slept[q]
            /\ \A id \in TaskIds \ {task_id'[p]} : svcStatus'[id] = svcStatus[id]
            /\ (pc[p] = "query" /\ pc'[p] = "branch") =>
                 status'[p] = svcStatus[task_id[p]]]_vars
  /\ [](\A p \in Pollers :
          pc[p] = "done" =>
            /\ status[p] = svcStatus[task_id[p]]
            /\ status[p] = "completed" => output_uri[p] = OutputUriOf(task_id[p]))

\* Two pollers of different tasks have ended, one completed, one failed.
C17_Witness ==
  \E p, q \in Pollers :
    /\ task_id[p] \in TaskIds /\ task_id[q] \in TaskIds
    /\ task_id[p] # task_id[q]
    /\ pc[p] = "done" /\ status[p] = "completed"
    /\ pc[q] = "done" /\ status[q] = "failed"

\* C18: the submission is the client's only write: an accepted submit
\* creates exactly one task and touches no other, every later step of a
\* poller (query, branch, suspend) leaves every task's status, the bucket and
\* the set of tasks unchanged, and no task is ever deleted.
C18_PollIsPureRead ==
  [][/\ \A p \in Pollers :
          (pc[p] # "start" /\ pc'[p] # pc[p]) =>
            (svcStatus' = svcStatus /\ s3' = s3)
     /\ \A p \in Pollers :
          (pc[p] = "start" /\ pc'[p] # "start") =>
            /\ s3' = s3
            /\ \A id \in Issued : svcStatus'[id] = svcStatus[id]
            /\ Cardinality(Issued') =
                 Cardinality(Issued) + (IF call'[p] = "returned" THEN 1 ELSE 0)
     /\ Issued \subseteq Issued']_vars

\* A submitter has ended after MaxPolls queries and the service holds the one
\* task it created.
C18_Witness ==
  \E p \in Pollers :
    /\ text[p] # 0 /\ pc[p] = "done" /\ polls[p] = MaxPolls
    /\ Issued = {task_id[p]}

\* C19: the loop keeps no poll state of its own: two loops on one task id,
\* one of them started on the id alone, end with the same status and the
\* same output location, and a loop started after another has ended reads
\* that result with its single query and ends without suspending.
C19_Stateless ==
  /\ [](\A p, q \in Pollers :
          (task_id[p] = task_id[q] /\ pc[p] = "done" /\ pc[q] = "done") =>
            (status[p] = status[q] /\ output_uri[p] = output_uri[q]))
  /\ [][\A p, q \in Pollers :
          /\ (/\ p # q /\ task_id[p] = task_id[q] /\ pc[p] = "done"
              /\ pc[q] = "query" /\ pc'[q] = "branch") =>
               status'[q] = status[p]
          /\ (pc[q] = "branch" /\ status[q] \in Terminal /\ pc'[q] # "branch") =>
               (pc'[q] = "done" /\ polls'[q] = polls[q] /\ slept'[q] = slept[q])]_vars

\* The submitter ended after MaxPolls queries; a loop started on the same id
\* alone ended after one query, with the same completed result.
C19_Witness ==
  \E p, q \in Pollers :
    /\ p # q /\ task_id[p] = task_id[q]
    /\ text[p] # 0 /\ text[q] = 0
    /\ pc[p] = "done" /\ pc[q] = "done"
    /\ polls[p] = MaxPolls /\ polls[q] = 1 /\ slept[q] = 0
    /\ status[q] = "completed" /\ output_uri[q] # ""

\* C20: the loop exits exactly when the status read is 'completed' or
\* 'failed'; on every other value, one outside the vocabulary included, it
\* suspends and then queries again.
C20_ExitIffTerminal ==
  [][\A p \in Pollers :
       /\ (pc[p] = "branch" /\ pc'[p] # "branch") =>
            /\ pc'[p] = "done" <=> status[p] \in {"completed", "failed"}
            /\ status[p] \notin {"completed", "failed"} => pc'[p] = "sleep"
       /\ (pc[p] = "sleep" /\ pc'[p] # "sleep") => pc'[p] = "query"]_vars

\* A loop that read 'Completed' has suspended and queried again, and is
\* suspended once more.
C20_Witness ==
  \E p \in Pollers :
    /\ pc[p] = "sleep" /\ status[p] = "Completed"
    /\ polls[p] = MaxPolls /\ slept[p] = PollInterval

\* C15 as stated: for a text of at most the real-time ceiling and a valid
\* voice/engine pair the synchronous path returns non-empty bytes, never None.
C15_AlwaysAudio ==
  (nb.synth = "returned" /\ nb.text <= SyncLimit /\ nb.voice_ok) =>
    (nb.audio_data.kind = "bytes" /\ Len(nb.audio_data.bytes) > 0)

\* C15, amended: for such a request the synchronous path returns the non-empty
\* audio bytes of the response when the call and the read of its stream go
\* through, and None when either raises; it never returns anything else.
C15_AudioOrNone ==
  (nb.synth = "returned" /\ nb.text <= SyncLimit /\ nb.voice_ok) =>
    /\ nb.audio_data.kind \in {"bytes", "None"}
    /\ nb.env = "ok" =>
         /\ nb.audio_data = Bytes(AudioStreamOf(nb.text, nb.format))
         /\ Len(nb.audio_data.bytes) > 0
         /\ nb.exc = "none"
    /\ nb.env # "ok" => (nb.audio_data = None /\ nb.exc # "none")

\* A text of exactly the ceiling's length came back as audio bytes.
C15_Witness ==
  /\ nb.synth = "returned" /\ nb.text = SyncLimit /\ nb.voice_ok
  /\ nb.env = "ok" /\ nb.audio_data.kind = "bytes"
  /\ Len(nb.audio_data.bytes) > 0

\* C16: the real-time call refuses every text over 3,000 characters, with
\* TextSizeLimitExceeded when nothing else is wrong; the batch submission of
\* an otherwise valid request is accepted exactly up to 100,000 characters;
\* a text in between is accepted on the batch path only.
C16_Ceilings ==
  /\ (nb.synth = "returned" /\ nb.text > SyncLimit) =>
       /\ nb.audio_data = None
       /\ nb.exc # "none"
       /\ (nb.voice_ok /\ nb.env # "call_fails") => nb.exc = "TextSizeLimitExceeded"
  /\ (nb.batch # "unset" /\ nb.voice_ok /\ nb.env # "call_fails") =>
       (nb.batch = "accepted" <=> nb.text <= BatchLimit)
  /\ (nb.batch # "unset" /\ nb.text > BatchLimit) => nb.batch = "rejected"

\* A text of exactly the batch ceiling's length was refused by the real-time
\* call and accepted by the batch submission.
C16_Witness ==
  /\ nb.text = BatchLimit /\ nb.synth = "returned" /\ nb.audio_data = None
  /\ nb.exc = "TextSizeLimitExceeded" /\ nb.batch = "accepted"

\* C21: queries and suspends strictly alternate at a fixed interval: the loop is
\* entered at the query with nothing slept, a query is counted only at the
\* query and a suspend taken only at the sleep, every later query is reached
\* from one suspend of PollInterval seconds, and the suspend is reached only
\* from the branch on a status that is not terminal.
C21_Alternation ==
  [][\A p \in Pollers :
       /\ (pc[p] # "query" /\ pc'[p] = "query") =>
             \/ pc[p] = "start" /\ polls[p] = 0 /\ slept'[p] = 0
             \/ pc[p] = "sleep" /\ polls[p] >= 1 /\ slept'[p] = PollInterval
       /\ (pc[p] # "sleep" /\ pc'[p] = "sleep") =>
             pc[p] = "branch" /\ polls[p] >= 1 /\ status[p] \notin Terminal
       /\ polls'[p] # polls[p] => pc[p] = "query"
       /\ slept'[p] # slept[p] => pc[p] = "sleep"
       /\ (pc[p] = "query" /\ pc'[p] # "query") =>
             pc'[p] \in {"branch", "raised"}
       /\ (pc[p] = "branch" /\ status[p] \in Terminal) => pc'[p] \in {"branch", "done"}
  ]_vars

\* A poller has queried, slept PollInterval seconds, queried again and left the
\* loop on a terminal status.
C21_Witness ==
  \E p \in Pollers :
    /\ pc[p] = "done"
    /\ polls[p] >= 2
    /\ slept[p] = PollInterval
    /\ status[p] \in Terminal

\* C24: save_audio_file writes a file exactly when the audio data is non-empty:
\* for None or b'' it leaves the directory as it was and prints nothing; for
\* non-empty data a write that goes through leaves exactly those bytes at
\* output_dir/filename and touches no other file; it never raises, a failed
\* write being printed instead.
C24_SaveAudioFile ==
  [][SaveAudioFile =>
       LET c == calls'[1]
           path == PathOf(c.filename)
       IN  /\ ~cell'.in_except
           /\ ~Truthy(c.audio_data) => (files' = files /\ console' = <<>>)
           /\ (Truthy(c.audio_data) /\ c.disk = "ok") =>
                 /\ <<path, c.audio_data.bytes>> \in files'
                 /\ \A f \in files' : f[1] = path => f[2] = c.audio_data.bytes
                 /\ console' = <<"Audio saved">>
           /\ (Truthy(c.audio_data) /\ c.disk # "ok") =>
                 /\ console' = <<"Error saving audio file">>
                 /\ <<path, c.audio_data.bytes>> \notin files' \ files
           /\ \A f \in files : f[1] # path => f \in files'
           /\ \A f \in files' : f[1] # path => f \in files
  ]_vars

\* Both cases have happened on one directory: a file holds the audio saved to
\* it, and the last call, with b'', has printed nothing.
C24_Witness ==
  /\ cell.name = "save_audio_file"
  /\ calls[1].audio_data = Bytes(<<>>)
  /\ console = <<>>
  /\ \E f \in files : f[1] = PathOf("standard_joanna.mp3") /\ Len(f[2]) > 0

\* The list the notebook keeps for engine eng.
ListOf(eng) ==
  CASE eng = "standard" -> standard_voices
    [] eng = "neural" -> neural_voices
    [] eng = "long-form" -> long_form_voices
    [] OTHER -> generative_voices

\* C25: voice categorisation is exact: after the loop a voice of the catalog is
\* in the list of engine E exactly when E is among its SupportedEngines, so a
\* voice supporting several engines is in each of their lists and a voice
\* without the field in none; every list holds voice_info records of catalog
\* voices only, in catalog order, none twice.
C25_Categorisation ==
  \A e \in 1..Len(Engines) :
    LET list == ListOf(Engines[e]) IN
      /\ \A i \in 1..Len(response) :
           (/\ "SupportedEngines" \in DOMAIN response[i]
            /\ In(Engines[e], response[i].SupportedEngines))
             <=> In(VoiceInfo(response[i]), list)
      /\ \A j \in 1..Len(list) :
           \E i \in 1..Len(response) : list[j] = VoiceInfo(response[i])
      /\ \A j, k \in 1..Len(list) :
           j < k => \E i, m \in 1..Len(response) :
                      /\ i < m
                      /\ list[j] = VoiceInfo(response[i])
                      /\ list[k] = VoiceInfo(response[m])
      /\ \A j, k \in 1..Len(list) : list[j] = list[k] => j = k

\* The catalog held a voice supporting two engines, now in both their lists,
\* and a voice without the field, now in none.
C25_Witness ==
  /\ cell.name = "list_voices"
  /\ \E i, m \in 1..Len(response) :
       /\ "SupportedEngines" \in DOMAIN response[i]
       /\ response[i].SupportedEngines = <<"neural", "long-form">>
       /\ In(VoiceInfo(response[i]), neural_voices)
       /\ In(VoiceInfo(response[i]), long_form_voices)
       /\ "SupportedEngines" \notin DOMAIN response[m]
       /\ \A e \in 1..Len(Engines) : ~In(VoiceInfo(response[m]), ListOf(Engines[e]))

\* C26: in each multilingual example synthesize_speech is called with engine
\* 'neural' exactly when the voice_id it passes is the Id of a voice in
\* neural_voices, and with 'standard' otherwise.
C26_EngineFollowsVoice ==
  (cell.name \in MultilingualExamples /\ calls # <<>>) =>
    /\ calls[1].engine \in {"neural", "standard"}
    /\ calls[1].engine = "neural" <=> AnyId(neural_voices, calls[1].voice_id)

\* What the code does: the engine follows the Id the example looks up, which
\* in the French example is not the voice_id it passes.
C26_EngineFollowsTestedId ==
  (cell.name \in MultilingualExamples /\ calls # <<>>) =>
    /\ calls[1].voice_id = VoiceIdOf(cell.name)
    /\ calls[1].engine \in {"neural", "standard"}
    /\ calls[1].engine = "neural" <=> AnyId(neural_voices, TestedIdOf(cell.name))

\* The French example has called synthesize_speech for Lea with the standard
\* engine although Lea is among the neural voices.
C26_Witness ==
  /\ cell.name = "french" /\ cell.pc = "done"
  /\ calls[1].voice_id = "Lea" /\ calls[1].engine = "standard"
  /\ AnyId(neural_voices, "Lea")

\* C22: synthesize_speech never raises: whatever the external call does, it
\* returns the bytes read from the response or None, and None exactly when the
\* call or the read raised; so the except branch of a try around it is never
\* entered because synthesis failed, and a cell without a try does not end in
\* a traceback because synthesis failed.
C22_NeverRaises ==
  /\ nb.synth # "unset" =>
       /\ nb.synth = "returned"
       /\ nb.audio_data.kind \in {"bytes", "None"}
       /\ nb.audio_data = None <=> nb.exc # "none"
       /\ nb.exc # "none" <=> ~SyncAccepts(nb.text, nb.voice_ok, nb.env = "ok")
  /\ (cell.name = "news" /\ cell.pc = "done" /\ cell.in_except) =>
       (nb.exc = "none" /\ calls[1].audio_data # None)
  /\ (cell.pc = "done" /\ nb.exc # "none") =>
       (~cell.in_except /\ ~In("Traceback", console) /\ ~In("Note", console))

\* The news style cell has ended after a synthesis that failed: None came
\* back, the except branch was not entered, nothing was saved or printed.
C22_Witness ==
  /\ cell.name = "news" /\ cell.pc = "done"
  /\ nb.synth = "returned" /\ nb.exc # "none" /\ nb.audio_data = None
  /\ ~cell.in_except
  /\ console = <<>>

\* C23: in the long-form example, when a long-form voice was listed and the
\* synthesis with the long-form engine fails, the cell falls back to the
\* neural engine with voice Joanna; after the cell the neural engine has been
\* tried whenever the long-form attempt produced no audio.
C23_FallsBack ==
  (/\ cell.name = "long_form" /\ cell.pc = "done"
   /\ ~\E k \in 1..Len(calls) :
          calls[k].engine = "long-form" /\ calls[k].audio_data # None) =>
    \E k \in 1..Len(calls) :
      calls[k].engine = "neural" /\ calls[k].voice_id = "Joanna"

\* What the code does: the neural engine is tried when no long-form voice was
\* listed, or when play_audio raised after a long-form synthesis that produced
\* audio; a long-form synthesis that fails returns None and ends the cell.
C23_FallbackOnlyAfterAudio ==
  (cell.name = "long_form" /\ cell.pc = "done") =>
    /\ (long_form_voices = <<>>) =>
         (Len(calls) = 1 /\ calls[1].engine = "neural" /\ ~cell.in_except)
    /\ (long_form_voices # <<>>) =>
         /\ calls[1].engine = "long-form"
         /\ calls[1].voice_id = long_form_voices[1].Id
         /\ calls[1].audio_data = None => (Len(calls) = 1 /\ ~cell.in_except)
         /\ Len(calls) > 1 <=> cell.in_except

\* A long-form voice was listed, the long-form synthesis failed, and the cell
\* has ended with that one call, nothing saved under either name.
C23_Witness ==
  /\ cell.name = "long_form" /\ cell.pc = "done"
  /\ long_form_voices # <<>>
  /\ Len(calls) = 1
  /\ calls[1].engine = "long-form" /\ calls[1].audio_data = None
  /\ nb.exc # "none"
  /\ files = {}

\* The voices of the last response that pass the gender preference of the call,
\* by position.
Eligible ==
  {i \in 1..Len(gav.voices) :
     IsTrue(gav.gender_preference) =>
       Lower(gav.voices[i].Gender) = Lower(gav.gender_preference.s)}

\* The eligible voices that support the neural engine.
EligibleNeural ==
  {i \in Eligible :
     /\ gav.voices[i].SupportedEngines.kind = "list"
     /\ In("neural", gav.voices[i].SupportedEngines.items)}

\* C27: get_appropriate_voice prefers neural voices within the caller's
\* constraints: the Id it returns is that of a voice of the requested language
\* that matches the gender preference, case-insensitively, when one is given;
\* it is the first such voice supporting 'neural' if there is one and the
\* first such voice otherwise; a voice of the wrong gender is never returned.
C27_NeuralWithinConstraints ==
  (gav.called /\ gav.outcome = "returned") =>
    \E i \in Eligible :
      /\ gav.id = gav.voices[i].Id
      /\ gav.voices[i].LanguageCode = gav.language_code
      /\ IF EligibleNeural # {}
           THEN i \in EligibleNeural /\ \A j \in EligibleNeural : i <= j
           ELSE \A j \in Eligible : i <= j

\* The only neural voice of the language was of the wrong gender, and the
\* voice of the right gender was returned.
C27_Witness ==
  /\ gav.called /\ gav.outcome = "returned"
  /\ gav.gender_preference = PyStr("MALE")
  /\ gav.id = "Matthew"
  /\ \E i \in 1..Len(gav.voices) :
       /\ gav.voices[i].Id = "Joanna"
       /\ gav.voices[i].SupportedEngines = PyList(<<"neural">>)
       /\ i \notin Eligible
  /\ EligibleNeural = {}

====
